---------------------------- MODULE Spec2Model ----------------------------
(***************************************************************************)
(* Model of the two form components of the exchange web client:           *)
(*   - AddressComponent (src/src/containers/Confirm/Address/index.tsx),   *)
(*     the KYC address form;                                              *)
(*   - OrderForm (src/unnamed/part_000), the order-entry form.            *)
(*                                                                         *)
(* JavaScript strings are sequences of one-character strings, so that the *)
(* regular expressions and the input cleaning of the code are computed    *)
(* character by character. JavaScript numbers are rationals [n, d]        *)
(* (d > 0), with NaN = 0/0, Infinity = 1/0 and undefined = 0/-1.          *)
(*                                                                         *)
(* Each component is a React component: an event handler runs to          *)
(* completion, the state is replaced and render() runs before the next    *)
(* event. An action below is one handler together with the render that    *)
(* follows it. The calls a handler makes on its collaborators (the        *)
(* dispatcher, the router, the callbacks in the props) are recorded in a  *)
(* per-handler call list.                                                  *)
(***************************************************************************)
EXTENDS Integers, Sequences, FiniteSets, TLC

VARIABLES
    addressState,     \* AddressComponent.state
    addressProps,     \* AddressComponent.props (lang, success)
    addressDisabled,  \* the disabled attribute of the rendered submit button
    addressCalls,     \* calls made by the last AddressComponent handler
    addressOp,        \* the last AddressComponent handler that ran
    orderProps,       \* OrderForm.props
    orderState,       \* OrderForm.state
    orderView,        \* what OrderForm.render() last produced
    orderCalls,       \* calls made by the last OrderForm handler
    orderOp,          \* the last OrderForm handler that ran
    orderMounted      \* whether componentDidMount has run

addressVars == <<addressState, addressProps, addressDisabled, addressCalls, addressOp>>
orderVars == <<orderProps, orderState, orderView, orderCalls, orderOp, orderMounted>>
vars == <<addressState, addressProps, addressDisabled, addressCalls, addressOp,
          orderProps, orderState, orderView, orderCalls, orderOp, orderMounted>>

---------------------------------------------------------------------------
(* Characters and strings                                                  *)

Lower == {"a","b","c","d","e","f","g","h","i","j","k","l","m",
          "n","o","p","q","r","s","t","u","v","w","x","y","z"}
Upper == {"A","B","C","D","E","F","G","H","I","J","K","L","M",
          "N","O","P","Q","R","S","T","U","V","W","X","Y","Z"}
Digit == {"0","1","2","3","4","5","6","7","8","9"}
\* \s of a JavaScript regular expression (the members the model's inputs use)
Whitespace == {" ", "\t", "\n"}

\* the JavaScript value undefined where a string is expected
UndefinedStr == <<"undefined">>

\* s repeated: the string of n copies of the character c
Repeat(c, n) == [i \in 1..n |-> c]

\* a regular expression ^[class]{min,max}$ ; max = -1 stands for no upper limit
MatchClass(s, class, min, max) ==
    /\ s # UndefinedStr
    /\ Len(s) >= min
    /\ (max = -1 \/ Len(s) <= max)
    /\ \A i \in 1..Len(s) : s[i] \in class

\* JavaScript truthiness of a string | undefined
TruthyStr(s) == s # UndefinedStr /\ s # <<>>

---------------------------------------------------------------------------
(* AddressComponent                                                        *)

\* the {1,12} of the postcode pattern
PostcodeMaxLen == 12

\* upload events carry 0..MaxFiles files
MaxFiles == 2

\* countries.getNames(lang) and countries.getAlpha2Code(name, lang) of the
\* i18n-iso-countries library, for the languages of the model
Langs == {"en"}
CountryNames(lang) == <<"Germany", "Ukraine">>
GetAlpha2Code(name, lang) ==
    CASE name = "Germany" -> <<"D","E">>
      [] name = "Ukraine" -> <<"U","A">>
      [] OTHER -> UndefinedStr

\* line 228: ^[a-zA-Z0-9,.;/\s]+$
residentialAddressRegex(value) ==
    MatchClass(value, Lower \cup Upper \cup Digit \cup {",", ".", ";", "/"} \cup Whitespace, 1, -1)

\* line 232: ^[a-zA-Z]+$
cityRegex(value) == MatchClass(value, Lower \cup Upper, 1, -1)

\* line 236: ^[0-9]{1,12}$
postcodeRegex(value) == MatchClass(value, Digit, 1, PostcodeMaxLen)

handleValidateInput(field, value) ==
    CASE field = "address" -> residentialAddressRegex(value)
      [] field = "city" -> cityRegex(value)
      [] field = "postcode" -> postcodeRegex(value)
      [] OTHER -> TRUE

handleCheckButtonDisabledNoCountry(st) ==
    LET addressValid == handleValidateInput("address", st.address)
        cityValid == handleValidateInput("city", st.city)
        postcodeValid == handleValidateInput("postcode", st.postcode)
    IN  \/ ~addressValid
        \/ ~cityValid
        \/ ~postcodeValid
        \/ Len(st.fileScan) = 0

handleCheckButtonDisabled(st) ==
    LET addressValid == handleValidateInput("address", st.address)
        cityValid == handleValidateInput("city", st.city)
        postcodeValid == handleValidateInput("postcode", st.postcode)
    IN  \/ ~addressValid
        \/ ~cityValid
        \/ ~postcodeValid
        \/ ~TruthyStr(st.country)
        \/ Len(st.fileScan) = 0

\* handleChange: setState({[key]: value})
handleChange(st, value, key) ==
    CASE key = "address" -> [st EXCEPT !.address = value]
      [] key = "city" -> [st EXCEPT !.city = value]
      [] key = "postcode" -> [st EXCEPT !.postcode = value]
      [] OTHER -> st

\* the closure handleFieldFocus(field) returns
handleFieldFocus(st, field) ==
    CASE field = "address" -> [st EXCEPT !.addressFocused = ~st.addressFocused]
      [] field = "city" -> [st EXCEPT !.cityFocused = ~st.cityFocused]
      [] field = "postcode" -> [st EXCEPT !.postcodeFocused = ~st.postcodeFocused]
      [] OTHER -> st

selectCountry(st, value, lang) ==
    [st EXCEPT !.country = GetAlpha2Code(value, lang)]

handleUploadScanKeepAll(st, allFiles, id) ==
    IF id = "fileScan" THEN [st EXCEPT !.fileScan = allFiles] ELSE st

handleUploadScan(st, allFiles, id) ==
    LET maxDocsCount == 1
        additionalFileList ==
            IF Len(allFiles) > maxDocsCount
            THEN SubSeq(allFiles, 1, maxDocsCount)
            ELSE allFiles
    IN  IF id = "fileScan" THEN [st EXCEPT !.fileScan = additionalFileList] ELSE st

\* a File that is undefined (fileScan[0] of an empty list)
UndefinedFile == "undefined"

\* the FormData sendAddress builds, by field name (upload stands for 'upload[]')
sendAddressRequestSwapped(st) ==
    [upload |-> IF Len(st.fileScan) > 0 THEN st.fileScan[1] ELSE UndefinedFile,
     address |-> st.city,
     country |-> st.country,
     city |-> st.address,
     postcode |-> st.postcode]

sendAddressRequest(st) ==
    [upload |-> IF Len(st.fileScan) > 0 THEN st.fileScan[1] ELSE UndefinedFile,
     address |-> st.address,
     country |-> st.country,
     city |-> st.city,
     postcode |-> st.postcode]

\* the calls of sendAddress
sendAddressCalls(st) == << [fn |-> "sendAddresses", payload |-> sendAddressRequest(st)] >>

receivePropsCallsAlways(next) == << [fn |-> "history.push", path |-> "/settings"] >>

\* the calls of UNSAFE_componentWillReceiveProps(next)
receivePropsCalls(next) ==
    IF TruthyStr(next.success)
    THEN << [fn |-> "history.push", path |-> "/settings"] >>
    ELSE << >>

---------------------------------------------------------------------------
(* Inputs of the address form                                              *)

AddressInputs ==
    { << >>,
      <<"1", "2", " ", "K", "y", "i", "v", "/", "a", ",", ".">>,
      <<"\t">>,
      <<"B", "#", "4">> }

CityInputs ==
    { << >>,
      <<"K", "y", "i", "v">>,
      <<"K", "y", "i", "v", "1">> }

PostcodeInputs ==
    { << >>,
      <<"7">>,
      Repeat("9", PostcodeMaxLen),
      Repeat("9", PostcodeMaxLen + 1),
      <<"0", "1", "a">> }

Files == {"scan1.png", "scan2.png"}

UploadEvents == UNION { [1..n -> Files] : n \in 0..MaxFiles }

SuccessValues == { UndefinedStr, << >>, <<"o", "k">> }

AddressInitState ==
    [country |-> << >>,
     address |-> << >>,
     addressFocused |-> FALSE,
     city |-> << >>,
     cityFocused |-> FALSE,
     postcode |-> << >>,
     postcodeFocused |-> FALSE,
     fileScan |-> << >>]

AddressInit ==
    /\ addressState = AddressInitState
    /\ addressProps \in [lang : Langs, success : {UndefinedStr}]
    /\ addressDisabled = handleCheckButtonDisabled(AddressInitState)
    /\ addressCalls = << >>
    /\ addressOp = [name |-> "constructor"]

\* a handler that only sets the state, followed by render
AddressSetState(st, op) ==
    /\ addressState' = st
    /\ addressDisabled' = handleCheckButtonDisabled(st)
    /\ addressCalls' = << >>
    /\ addressOp' = op
    /\ UNCHANGED addressProps

AddressChange ==
    \/ \E v \in AddressInputs :
          AddressSetState(handleChange(addressState, v, "address"),
                          [name |-> "handleChange", key |-> "address"])
    \/ \E v \in CityInputs :
          AddressSetState(handleChange(addressState, v, "city"),
                          [name |-> "handleChange", key |-> "city"])
    \/ \E v \in PostcodeInputs :
          AddressSetState(handleChange(addressState, v, "postcode"),
                          [name |-> "handleChange", key |-> "postcode"])

AddressFocus ==
    \E f \in {"address", "city", "postcode"} :
        AddressSetState(handleFieldFocus(addressState, f),
                        [name |-> "handleFieldFocus", key |-> f])

AddressSelectCountry ==
    \E i \in 1..Len(CountryNames(addressProps.lang)) :
        AddressSetState(selectCountry(addressState, CountryNames(addressProps.lang)[i],
                                      addressProps.lang),
                        [name |-> "selectCountry"])

AddressUpload ==
    \E files \in UploadEvents :
        AddressSetState(handleUploadScan(addressState, files, "fileScan"),
                        [name |-> "handleUploadScan", files |-> files])

\* a click on the submit button: the button passes it on only when enabled
AddressSubmitClick ==
    /\ ~addressDisabled
    /\ addressCalls' = sendAddressCalls(addressState)
    /\ addressOp' = [name |-> "sendAddress"]
    /\ UNCHANGED <<addressState, addressProps, addressDisabled>>

AddressReceiveProps ==
    \E next \in [lang : Langs, success : SuccessValues] :
        /\ addressCalls' = receivePropsCalls(next)
        /\ addressProps' = next
        /\ addressOp' = [name |-> "componentWillReceiveProps"]
        /\ addressDisabled' = handleCheckButtonDisabled(addressState)
        /\ UNCHANGED addressState

---------------------------------------------------------------------------
(* JavaScript numbers                                                      *)

Num(i) == [n |-> i, d |-> 1]
NaN == [n |-> 0, d |-> 0]
Infinity == [n |-> 1, d |-> 0]
NegInfinity == [n |-> -1, d |-> 0]
Undefined == [n |-> 0, d |-> -1]

IsFinite(x) == x.d > 0
IsNaN(x) == (x.d = 0 /\ x.n = 0) \/ x.d < 0

\* truthiness of a number | undefined: not 0, not NaN, not undefined
Truthy(x) == x.d >= 0 /\ x.n # 0

\* a || b
Or(a, b) == IF Truthy(a) THEN a ELSE b

Sign(i) == IF i > 0 THEN 1 ELSE IF i < 0 THEN -1 ELSE 0
Abs(i) == IF i < 0 THEN -i ELSE i

\* a / b
Div(a, b) ==
    IF IsNaN(a) \/ IsNaN(b) THEN NaN
    ELSE IF ~IsFinite(a) THEN (IF IsFinite(b) THEN (IF b.n < 0 THEN [n |-> -a.n, d |-> 0] ELSE a) ELSE NaN)
    ELSE IF ~IsFinite(b) THEN Num(0)
    ELSE IF b.n = 0 THEN (IF a.n = 0 THEN NaN ELSE [n |-> Sign(a.n), d |-> 0])
    ELSE [n |-> a.n * b.d * Sign(b.n), d |-> a.d * Abs(b.n)]

\* a * b
Mul(a, b) ==
    IF IsNaN(a) \/ IsNaN(b) THEN NaN
    ELSE IF IsFinite(a) /\ IsFinite(b) THEN [n |-> a.n * b.n, d |-> a.d * b.d]
    ELSE IF a.n = 0 \/ b.n = 0 THEN NaN
    ELSE [n |-> Sign(a.n) * Sign(b.n), d |-> 0]

\* a + b and a - b, of finite numbers
Add(a, b) == [n |-> a.n * b.d + b.n * a.d, d |-> a.d * b.d]
Sub(a, b) == [n |-> a.n * b.d - b.n * a.d, d |-> a.d * b.d]

\* a <= b, of finite numbers
Leq(a, b) == a.n * b.d <= b.n * a.d

\* x <= 0 (false of NaN and of undefined)
LeqZero(x) == (x.d > 0 /\ x.n <= 0) \/ (x.d = 0 /\ x.n < 0)

\* a === b of two numbers
NumEq(a, b) ==
    IF IsNaN(a) \/ IsNaN(b) THEN FALSE
    ELSE IF IsFinite(a) /\ IsFinite(b) THEN a.n * b.d = b.n * a.d
    ELSE a.d = b.d /\ a.n = b.n

DigitSeq == <<"0","1","2","3","4","5","6","7","8","9">>
DigitVal(c) == (CHOOSE i \in 1..10 : DigitSeq[i] = c) - 1

RECURSIVE Pow10(_)
Pow10(k) == IF k <= 0 THEN 1 ELSE 10 * Pow10(k - 1)

RECURSIVE DigitsValue(_)
DigitsValue(s) ==
    IF Len(s) = 0 THEN 0
    ELSE 10 * DigitsValue(SubSeq(s, 1, Len(s) - 1)) + DigitVal(s[Len(s)])

\* s without its i-th character
RemoveAt(s, i) == SubSeq(s, 1, i - 1) \o SubSeq(s, i + 1, Len(s))

\* Number(s) and +s of a string over digits, '.', '-', '+' and other characters
\* (no exponent, no radix prefix and no white space occur in the model's inputs)
StringToNumber(s) ==
    IF s = UndefinedStr THEN NaN
    ELSE IF Len(s) = 0 THEN Num(0)
    ELSE
      LET signed == s[1] \in {"-", "+"}
          sign == IF s[1] = "-" THEN -1 ELSE 1
          body == IF signed THEN Tail(s) ELSE s
          dots == {i \in 1..Len(body) : body[i] = "."}
          wellFormed ==
              /\ \A i \in 1..Len(body) : body[i] \in Digit \cup {"."}
              /\ Cardinality(dots) <= 1
              /\ Len(body) - Cardinality(dots) >= 1
      IN  IF ~wellFormed THEN NaN
          ELSE IF dots = {} THEN [n |-> sign * DigitsValue(body), d |-> 1]
          ELSE LET p == CHOOSE i \in dots : TRUE
               IN  [n |-> sign * DigitsValue(RemoveAt(body, p)), d |-> Pow10(Len(body) - p)]

RECURSIVE NatToString(_)
NatToString(i) ==
    IF i < 10 THEN <<DigitSeq[i + 1]>>
    ELSE NatToString(i \div 10) \o <<DigitSeq[(i % 10) + 1]>>

---------------------------------------------------------------------------
(* Helpers of the repository the order form imports                        *)

\* constants: VALUATION_PRIMARY_CURRENCY
VALUATION_PRIMARY_CURRENCY == <<"U", "S", "D">>

UpperSeq == <<"A","B","C","D","E","F","G","H","I","J","K","L","M",
              "N","O","P","Q","R","S","T","U","V","W","X","Y","Z">>
LowerSeq == <<"a","b","c","d","e","f","g","h","i","j","k","l","m",
              "n","o","p","q","r","s","t","u","v","w","x","y","z">>

\* String.prototype.toLowerCase
toLowerCase(s) ==
    [i \in 1..Len(s) |->
        IF s[i] \in Upper
        THEN LowerSeq[CHOOSE k \in 1..26 : UpperSeq[k] = s[i]]
        ELSE s[i]]

\* the first index of s holding c, 0 when there is none
IndexOf(s, c) ==
    IF \E i \in 1..Len(s) : s[i] = c
    THEN CHOOSE i \in 1..Len(s) : s[i] = c /\ \A j \in 1..(i - 1) : s[j] # c
    ELSE 0

\* the last index of the run of c that starts at index i
RunEnd(s, c, i) ==
    CHOOSE j \in i..Len(s) :
        /\ \A k \in i..j : s[k] = c
        /\ (j = Len(s) \/ s[j + 1] # c)

\* text.replace(from, to) with one-character strings: the first occurrence only
ReplaceFirstChar(s, from, to) ==
    IF IndexOf(s, from) = 0 THEN s ELSE [s EXCEPT ![IndexOf(s, from)] = to]

\* text.replace(/c+/, with): the first run of c becomes `with`
ReplaceFirstRun(s, c, with) ==
    LET i == IndexOf(s, c)
    IN  IF i = 0 THEN s
        ELSE SubSeq(s, 1, i - 1) \o with \o SubSeq(s, RunEnd(s, c, i) + 1, Len(s))

\* text.replace(/^0+/, '0')
CollapseLeadingZeros(s) ==
    IF Len(s) > 0 /\ s[1] = "0"
    THEN <<"0">> \o SubSeq(s, RunEnd(s, "0", 1) + 1, Len(s))
    ELSE s

\* text.replace(/^0+([1-9])/, '$1')
DropZerosBeforeDigit(s) ==
    IF Len(s) > 0 /\ s[1] = "0"
    THEN LET e == RunEnd(s, "0", 1)
         IN  IF e < Len(s) /\ s[e + 1] \in (Digit \ {"0"})
             THEN SubSeq(s, e + 1, Len(s))
             ELSE s
    ELSE s

\* helpers: cleanPositiveFloatInput(text): the first ',' becomes '.', the first
\* run of '-' is removed, leading zeros are collapsed, the first run of '.' is
\* collapsed, a leading '.' gets a '0' in front
cleanPositiveFloatInput(text) ==
    LET s1 == ReplaceFirstChar(text, ",", ".")
        s2 == ReplaceFirstRun(s1, "-", << >>)
        s3 == CollapseLeadingZeros(s2)
        s4 == ReplaceFirstRun(s3, ".", <<".">>)
        cleanInput == DropZerosBeforeDigit(s4)
    IN  IF Len(cleanInput) > 0 /\ cleanInput[1] = "."
        THEN <<"0">> \o cleanInput
        ELSE cleanInput

\* the total of `rem` units taken from the proposals from index i on: each
\* proposal gives its volume at its price, what the book cannot fill is priced
\* at the last proposal's price
RECURSIVE WalkProposals(_, _, _)
WalkProposals(rem, proposals, i) ==
    LET price == StringToNumber(proposals[i][1])
        volume == StringToNumber(proposals[i][2])
    IN  IF Leq(rem, volume) \/ i = Len(proposals)
        THEN Mul(rem, price)
        ELSE Add(Mul(volume, price), WalkProposals(Sub(rem, volume), proposals, i + 1))

\* helpers: getTotalPrice(amount, proposals): the volume-weighted total of the
\* amount over the ordered (price, volume) proposals
getTotalPrice(amount, proposals) ==
    LET a == StringToNumber(amount)
    IN  IF Len(proposals) = 0 \/ ~IsFinite(a) \/ a.n <= 0
        THEN Num(0)
        ELSE WalkProposals(a, proposals, 1)

\* components: Decimal.format(value, precision): the value cut to `precision`
\* fractional digits
DecimalFormat(value, precision) ==
    IF value.d < 0 THEN <<"0">>
    ELSE IF IsNaN(value) THEN <<"N", "a", "N">>
    ELSE IF ~IsFinite(value) THEN <<"I", "n", "f">>
    ELSE
      LET scaled == (Abs(value.n) * Pow10(precision)) \div value.d
          whole == scaled \div Pow10(precision)
          frac == scaled % Pow10(precision)
          fracDigits == [i \in 1..precision |->
                            DigitSeq[((frac \div Pow10(precision - i)) % 10) + 1]]
      IN  (IF value.n < 0 THEN <<"-">> ELSE << >>)
          \o NatToString(whole)
          \o (IF precision > 0 THEN <<".">> \o fracDigits ELSE << >>)

---------------------------------------------------------------------------
(* OrderForm                                                               *)

\* the default of the constructor: props.currentMarketAskPrecision || 6
DefaultPrecision == 6

\* handleSetValue(value, defaultValue) of strings: value || defaultValue
handleSetValue(value, defaultValue) ==
    IF TruthyStr(value) THEN value ELSE defaultValue

checkButtonIsDisabledNoAmount(safeAmountV, safePriceV, price, props, state) ==
    LET invalidLimitPrice == LeqZero(StringToNumber(price)) /\ state.orderType = "Limit"
        invalidMarketPrice == LeqZero(safePriceV) /\ state.orderType = "Market"
    IN  \/ props.disabled
        \/ ~Truthy(props.available)
        \/ invalidLimitPrice
        \/ invalidMarketPrice

checkButtonIsDisabled(safeAmountV, safePriceV, price, props, state) ==
    LET invalidAmount == LeqZero(safeAmountV)
        invalidLimitPrice == LeqZero(StringToNumber(price)) /\ state.orderType = "Limit"
        invalidMarketPrice == LeqZero(safePriceV) /\ state.orderType = "Market"
    IN  \/ props.disabled
        \/ ~Truthy(props.available)
        \/ invalidAmount
        \/ invalidLimitPrice
        \/ invalidMarketPrice

orderConstructorLimit(props) ==
    [orderType |-> "Limit",
     amount |-> << >>,
     price |-> << >>,
     priceMarket |-> props.priceMarket,
     currentMarketAskPrecision |->
         IF props.currentMarketAskPrecision # 0
         THEN props.currentMarketAskPrecision ELSE DefaultPrecision,
     currentMarketBidPrecision |->
         IF props.currentMarketBidPrecision # 0
         THEN props.currentMarketBidPrecision ELSE DefaultPrecision,
     priceFocused |-> FALSE,
     amountFocused |-> FALSE]

\* constructor(props): the initial state
orderConstructor(props) ==
    [orderType |-> "Market",
     amount |-> << >>,
     price |-> << >>,
     priceMarket |-> props.priceMarket,
     currentMarketAskPrecision |->
         IF props.currentMarketAskPrecision # 0
         THEN props.currentMarketAskPrecision ELSE DefaultPrecision,
     currentMarketBidPrecision |->
         IF props.currentMarketBidPrecision # 0
         THEN props.currentMarketBidPrecision ELSE DefaultPrecision,
     priceFocused |-> FALSE,
     amountFocused |-> FALSE]

\* render(), lines 211-216: the derived values
safeAmount(state) == Or(StringToNumber(state.amount), Num(0))
totalPrice(props, state) == getTotalPrice(state.amount, props.proposals)
safePrice(props, state) ==
    Or(Div(totalPrice(props, state), StringToNumber(state.amount)), state.priceMarket)
total(props, state) ==
    IF state.orderType = "Market"
    THEN totalPrice(props, state)
    ELSE Mul(safeAmount(state), Or(StringToNumber(state.price), Num(0)))

\* render(), line 264: the price line, 1 FROM = <price>
shownPrice(props, state) ==
    handleSetValue(DecimalFormat(safePrice(props, state), state.currentMarketBidPrecision),
                   <<"0">>)

\* render(), line 274: the total line
shownTotal(props, state) ==
    DecimalFormat(total(props, state), state.currentMarketBidPrecision)

\* render(), line 286: the submit button
orderRender(props, state) ==
    [disabled |-> checkButtonIsDisabled(safeAmount(state), safePrice(props, state),
                                        state.price, props, state)]

\* a currency and a market of the lists match (lines 154-157, 351-354)
IsTargetMarket(cur, market) ==
    /\ toLowerCase(cur.id) = toLowerCase(market.base_unit)
    /\ market.quote_unit = toLowerCase(VALUATION_PRIMARY_CURRENCY)

\* the least index of a set of indices, 0 when the set is empty (find, some)
FirstIndex(S) ==
    IF S = {} THEN 0 ELSE CHOOSE i \in S : \A j \in S : i <= j

HasLists(props) ==
    /\ props.currencies.present
    /\ props.markets.present
    /\ Len(props.currencies.list) > 0
    /\ Len(props.markets.list) > 0

\* the guard of line 154 / 351 on a currency
IsSecondaryCurrency(cur) ==
    /\ TruthyStr(cur.id)
    /\ toLowerCase(cur.id) # toLowerCase(VALUATION_PRIMARY_CURRENCY)

componentDidMountLastMarket(props) ==
    IF HasLists(props)
    THEN LET markets == props.markets.list
             Hit(cur) == IsSecondaryCurrency(cur)
                         /\ \E j \in 1..Len(markets) : IsTargetMarket(cur, markets[j])
             c == FirstIndex({i \in 1..Len(props.currencies.list) : Hit(props.currencies.list[i])})
         IN  IF c = 0 THEN << >>
             ELSE LET cur == props.currencies.list[c]
                      j == CHOOSE k \in 1..Len(markets) :
                              /\ IsTargetMarket(cur, markets[k])
                              /\ \A l \in (k + 1)..Len(markets) : ~IsTargetMarket(cur, markets[l])
                  IN  << [fn |-> "setCurrentMarket", market |-> markets[j]] >>
    ELSE << >>

\* the calls of componentDidMount
componentDidMount(props) ==
    IF HasLists(props)
    THEN LET markets == props.markets.list
             Target(cur) == FirstIndex({j \in 1..Len(markets) : IsTargetMarket(cur, markets[j])})
             Hit(cur) == IsSecondaryCurrency(cur) /\ Target(cur) # 0
             c == FirstIndex({i \in 1..Len(props.currencies.list) : Hit(props.currencies.list[i])})
         IN  IF c = 0 THEN << >>
             ELSE << [fn |-> "setCurrentMarket",
                      market |-> markets[Target(props.currencies.list[c])]] >>
    ELSE << >>

componentWillReceivePropsKeepPrecision(state, next) ==
    LET nextPriceLimitTruncated == DecimalFormat(next.priceLimit, state.currentMarketBidPrecision)
        s1 == IF /\ state.orderType = "Limit"
                 /\ Truthy(next.priceLimit)
                 /\ nextPriceLimitTruncated # state.price
              THEN [state EXCEPT !.price = nextPriceLimitTruncated]
              ELSE state
    IN  [s1 EXCEPT !.priceMarket = next.priceMarket,
                   !.currentMarketBidPrecision = next.currentMarketBidPrecision]

\* componentWillReceiveProps(next): the next state
componentWillReceiveProps(state, next) ==
    LET nextPriceLimitTruncated == DecimalFormat(next.priceLimit, state.currentMarketBidPrecision)
        s1 == IF /\ state.orderType = "Limit"
                 /\ Truthy(next.priceLimit)
                 /\ nextPriceLimitTruncated # state.price
              THEN [state EXCEPT !.price = nextPriceLimitTruncated]
              ELSE state
    IN  [s1 EXCEPT !.priceMarket = next.priceMarket,
                   !.currentMarketAskPrecision = next.currentMarketAskPrecision,
                   !.currentMarketBidPrecision = next.currentMarketBidPrecision]

\* OrderForm.handleFieldFocus(field): the next state
orderHandleFieldFocus(props, state, field) ==
    IF field = props.priceText
    THEN [state EXCEPT !.priceFocused = ~state.priceFocused]
    ELSE IF field = props.amountText
    THEN [state EXCEPT !.amountFocused = ~state.amountFocused]
    ELSE state

\* OrderForm.handleFieldFocus(field): its calls
orderHandleFieldFocusCalls(props, field) ==
    IF field = props.priceText /\ props.listenInputPrice
    THEN << [fn |-> "listenInputPrice"] >>
    ELSE << >>

\* line 319: ^(?:[\d-]*\.?[\d-]{0,precision}|[\d-]*\.[\d-])$
amountCondition(s, precision) ==
    LET dots == {i \in 1..Len(s) : s[i] = "."}
        DigitOrDash == Digit \cup {"-"}
    IN  /\ \A i \in 1..Len(s) : s[i] \in DigitOrDash \cup {"."}
        /\ Cardinality(dots) <= 1
        /\ \A p \in dots : (Len(s) - p <= precision) \/ (Len(s) - p = 1)

\* handleAmountChange(value): the next state
handleAmountChange(state, value) ==
    LET convertedValue == cleanPositiveFloatInput(value)
    IN  IF amountCondition(convertedValue, state.currentMarketAskPrecision)
        THEN [state EXCEPT !.amount = convertedValue]
        ELSE state

\* handleSubmit: the order handed to onSubmit
handleSubmitOrder(props, state) ==
    [type |-> props.type,
     orderType |-> state.orderType,
     amount |-> state.amount,
     price |-> IF state.orderType = "Market" THEN state.priceMarket ELSE state.price,
     available |-> Or(props.available, Num(0))]

handleSubmitKeepAmount(state) == [state EXCEPT !.price = << >>]

\* handleSubmit: the next state
handleSubmit(state) == [state EXCEPT !.amount = << >>, !.price = << >>]

\* formatCurrencyList(currencies, markets): the names the dropdown lists
RECURSIVE formatCurrencyListFrom(_, _)
formatCurrencyListFrom(props, i) ==
    IF i > Len(props.currencies.list) THEN << >>
    ELSE LET cur == props.currencies.list[i]
             found == IsSecondaryCurrency(cur)
                      /\ \E j \in 1..Len(props.markets.list) :
                            IsTargetMarket(cur, props.markets.list[j])
         IN  (IF found THEN <<cur.name>> ELSE << >>) \o formatCurrencyListFrom(props, i + 1)

formatCurrencyList(props) ==
    IF HasLists(props) THEN formatCurrencyListFrom(props, 1) ELSE << >>

\* the calls of handleChangeBaseCurrency(value)
handleChangeBaseCurrency(props, value) ==
    LET currencies == props.currencies
        markets == props.markets
        t == IF currencies.present /\ Len(currencies.list) > 0
             THEN FirstIndex({i \in 1..Len(currencies.list) : currencies.list[i].name = value})
             ELSE 0
    IN  IF t # 0 /\ markets.present /\ Len(markets.list) > 0
        THEN LET targetBaseUnit == currencies.list[t]
                 ToSet(m) == /\ m.base_unit = targetBaseUnit.id
                             /\ m.quote_unit = toLowerCase(VALUATION_PRIMARY_CURRENCY)
                 k == FirstIndex({j \in 1..Len(markets.list) : ToSet(markets.list[j])})
             IN  IF k # 0
                 THEN << [fn |-> "setCurrentMarket", market |-> markets.list[k]] >>
                 ELSE << >>
        ELSE << >>

---------------------------------------------------------------------------
(* Inputs of the order form                                                *)

\* the lists of currencies and markets in the props hold at most this many
MaxCurrencies == 2
MaxMarkets == 2

\* what the user types into the amount field
AmountInputs ==
    { << >>,
      <<"0">>,
      <<"1">>,
      <<"2">>,
      <<"1", ".", "5">>,
      <<"1", ".", "2", "5">>,
      <<"0", ",", "2", "5">>,
      <<"-", "1">>,
      <<"0", "0", "7">>,
      <<"1", ".", ".", "5">>,
      <<"1", ".", "2", ".", "3">>,
      <<"x", "1">> }

\* the order book side handed to the form: [price, volume] pairs
Book == << <<<<"2">>, <<"1">>>>, <<<<"4">>, <<"1">>>> >>
ProposalLists == { << >>, Book }

Currencies ==
    { [id |-> <<"b", "t", "c">>, name |-> "Bitcoin"],
      [id |-> <<"E", "T", "H">>, name |-> "Ethereum"],
      [id |-> <<"U", "s", "d">>, name |-> "Dollar"],
      [id |-> << >>, name |-> "Nameless"] }

Markets ==
    { [id |-> "btcusd", base_unit |-> <<"b", "t", "c">>, quote_unit |-> <<"u", "s", "d">>],
      [id |-> "BTCusd", base_unit |-> <<"B", "T", "C">>, quote_unit |-> <<"u", "s", "d">>],
      [id |-> "ethusd", base_unit |-> <<"e", "t", "h">>, quote_unit |-> <<"u", "s", "d">>],
      [id |-> "ethUSD", base_unit |-> <<"e", "t", "h">>, quote_unit |-> <<"U", "S", "D">>],
      [id |-> "usd", base_unit |-> << >>, quote_unit |-> <<"u", "s", "d">>] }

\* a list prop: absent, or a list of at most max elements
ListProps(S, max) ==
    { [present |-> FALSE, list |-> << >>] }
    \cup { [present |-> TRUE, list |-> l] : l \in UNION { [1..n -> S] : n \in 0..max } }

\* the lists of the props while the form is in use
MainCurrencies ==
    [present |-> TRUE,
     list |-> << [id |-> <<"U", "s", "d">>, name |-> "Dollar"],
                 [id |-> <<"b", "t", "c">>, name |-> "Bitcoin"] >>]
MainMarkets ==
    [present |-> TRUE,
     list |-> << [id |-> "btcusd", base_unit |-> <<"b", "t", "c">>,
                  quote_unit |-> <<"u", "s", "d">>] >>]

\* the props the parent hands to the form while it is in use
OrderPropsMain ==
    { p \in [priceMarket : {Num(0), Num(5)},
             priceLimit : {Num(3)},
             type : {"buy", "sell"},
             available : {Undefined, Num(0), Num(10)},
             disabled : BOOLEAN,
             proposals : ProposalLists,
             currentMarketAskPrecision : {0, 2},
             currentMarketBidPrecision : {2},
             currencies : {MainCurrencies},
             markets : {MainMarkets},
             priceText : {"Price"},
             amountText : {"Amount"},
             listenInputPrice : {TRUE}] :
        p.disabled => p.available = Num(10) }

\* the props the form is mounted with, over the lists of currencies and markets
OrderPropsOver(CurrencyLists, MarketLists) ==
    [priceMarket : {Num(5)},
     priceLimit : {Undefined},
     type : {"buy"},
     available : {Num(10)},
     disabled : {FALSE},
     proposals : {Book},
     currentMarketAskPrecision : {2},
     currentMarketBidPrecision : {2},
     currencies : CurrencyLists,
     markets : MarketLists,
     priceText : {"Price"},
     amountText : {"Amount"},
     listenInputPrice : {TRUE}]

OrderPropsMount ==
    OrderPropsOver(ListProps(Currencies, MaxCurrencies), ListProps(Markets, MaxMarkets))

---------------------------------------------------------------------------
(* Actions of the order form                                               *)

OrderInit(PropsSet) ==
    /\ orderProps \in PropsSet
    /\ orderState = orderConstructor(orderProps)
    /\ orderView = orderRender(orderProps, orderState)
    /\ orderCalls = << >>
    /\ orderOp = [name |-> "constructor"]
    /\ orderMounted = FALSE

OrderDidMount ==
    /\ ~orderMounted
    /\ orderMounted' = TRUE
    /\ orderCalls' = componentDidMount(orderProps)
    /\ orderOp' = [name |-> "componentDidMount"]
    /\ UNCHANGED <<orderProps, orderState, orderView>>

OrderReceiveProps(PropsSet) ==
    /\ orderMounted
    /\ \E next \in PropsSet :
        /\ orderState' = componentWillReceiveProps(orderState, next)
        /\ orderProps' = next
        /\ orderView' = orderRender(next, orderState')
        /\ orderCalls' = << >>
        /\ orderOp' = [name |-> "componentWillReceiveProps"]
    /\ UNCHANGED orderMounted

\* the amount input's focus handler: render passes amountText
OrderFocus ==
    /\ orderMounted
    /\ orderState' = orderHandleFieldFocus(orderProps, orderState, orderProps.amountText)
    /\ orderView' = orderRender(orderProps, orderState')
    /\ orderCalls' = orderHandleFieldFocusCalls(orderProps, orderProps.amountText)
    /\ orderOp' = [name |-> "handleFieldFocus"]
    /\ UNCHANGED <<orderProps, orderMounted>>

OrderAmountChange ==
    /\ orderMounted
    /\ \E value \in AmountInputs :
        /\ orderState' = handleAmountChange(orderState, value)
        /\ orderOp' = [name |-> "handleAmountChange", value |-> value]
    /\ orderView' = orderRender(orderProps, orderState')
    /\ orderCalls' = << >>
    /\ UNCHANGED <<orderProps, orderMounted>>

\* a click on the submit button: the button passes it on only when enabled
OrderSubmitClick ==
    /\ orderMounted
    /\ ~orderView.disabled
    /\ orderCalls' = << [fn |-> "onSubmit", order |-> handleSubmitOrder(orderProps, orderState)] >>
    /\ orderState' = handleSubmit(orderState)
    /\ orderView' = orderRender(orderProps, orderState')
    /\ orderOp' = [name |-> "handleSubmit"]
    /\ UNCHANGED <<orderProps, orderMounted>>

\* a selection in the dropdown of base currencies
OrderChangeBaseCurrency ==
    /\ orderMounted
    /\ \E i \in 1..Len(formatCurrencyList(orderProps)) :
        /\ orderCalls' = handleChangeBaseCurrency(orderProps, formatCurrencyList(orderProps)[i])
        /\ orderOp' = [name |-> "handleChangeBaseCurrency", index |-> i]
    /\ UNCHANGED <<orderProps, orderState, orderView, orderMounted>>

---------------------------------------------------------------------------
(* Specifications                                                          *)

\* the address form alone
InitAddress ==
    /\ AddressInit
    /\ OrderInit(OrderPropsOver({MainCurrencies}, {MainMarkets}))

NextAddress ==
    \/ (AddressChange /\ UNCHANGED orderVars)
    \/ (AddressFocus /\ UNCHANGED orderVars)
    \/ (AddressSelectCountry /\ UNCHANGED orderVars)
    \/ (AddressUpload /\ UNCHANGED orderVars)
    \/ (AddressSubmitClick /\ UNCHANGED orderVars)
    \/ (AddressReceiveProps /\ UNCHANGED orderVars)

SpecAddress == InitAddress /\ [][NextAddress]_vars

\* the order form in use
InitOrder == AddressInit /\ OrderInit(OrderPropsMain)

NextOrder ==
    \/ (OrderDidMount /\ UNCHANGED addressVars)
    \/ (OrderReceiveProps(OrderPropsMain) /\ UNCHANGED addressVars)
    \/ (OrderFocus /\ UNCHANGED addressVars)
    \/ (OrderAmountChange /\ UNCHANGED addressVars)
    \/ (OrderSubmitClick /\ UNCHANGED addressVars)
    \/ (OrderChangeBaseCurrency /\ UNCHANGED addressVars)

SpecOrder == InitOrder /\ [][NextOrder]_vars

\* the order form mounted over the lists of currencies and markets
InitMount == AddressInit /\ OrderInit(OrderPropsMount)

NextMount ==
    \/ (OrderDidMount /\ UNCHANGED addressVars)
    \/ (OrderChangeBaseCurrency /\ UNCHANGED addressVars)
    \/ (OrderFocus /\ UNCHANGED addressVars)

SpecMount == InitMount /\ [][NextMount]_vars

\* both forms on one page
Init == InitOrder
Next == NextAddress \/ NextOrder
Spec == Init /\ [][Next]_vars

---------------------------------------------------------------------------
(* Claims about the address form (checked under SpecAddress)               *)

\* the characters of a string
Chars(s) == {s[i] : i \in 1..Len(s)}

ClaimAddressOk(s) ==
    Len(s) >= 1 /\ Chars(s) \subseteq (Lower \cup Upper \cup Digit \cup {",", ".", ";", "/", " ", "\t", "\n"})
ClaimCityOk(s) == Len(s) >= 1 /\ Chars(s) \subseteq (Lower \cup Upper)
ClaimPostcodeOk(s) == Len(s) \in 1..12 /\ Chars(s) \subseteq Digit

\* C1: the submit button of the address form is disabled if and only if the
\* address, the city or the postcode does not match its pattern, the country
\* is empty or no scan file is held; so it is disabled in the initial state
\* and whenever one of the fields is empty.
C1_DisabledIffInvalid ==
    /\ addressDisabled <=>
          \/ ~ClaimAddressOk(addressState.address)
          \/ ~ClaimCityOk(addressState.city)
          \/ ~ClaimPostcodeOk(addressState.postcode)
          \/ addressState.country = << >>
          \/ addressState.fileScan = << >>
    /\ (addressOp.name = "constructor" => addressDisabled)
    /\ (\/ addressState.address = << >>
        \/ addressState.city = << >>
        \/ addressState.postcode = << >>
        \/ addressState.country = << >>) => addressDisabled

\* C1 witness: the button is enabled with a 12-digit postcode, and every
\* field is filled in
C1_Witness ==
    /\ ~addressDisabled
    /\ Len(addressState.postcode) = 12
    /\ addressState.address # << >>
    /\ addressState.country # << >>

\* C2: a click on the enabled submit button dispatches sendAddresses exactly
\* once, with the current address, city and postcode, all matching their
\* patterns, the selected non-empty country code and the single held scan
\* file; sendAddresses is dispatched by nothing else.
C2_ValidatedPayload ==
    /\ addressOp.name = "sendAddress" =>
          /\ Len(addressCalls) = 1
          /\ addressCalls[1].fn = "sendAddresses"
          /\ addressCalls[1].payload.address = addressState.address
          /\ addressCalls[1].payload.city = addressState.city
          /\ addressCalls[1].payload.postcode = addressState.postcode
          /\ addressCalls[1].payload.country = addressState.country
          /\ ClaimAddressOk(addressCalls[1].payload.address)
          /\ ClaimCityOk(addressCalls[1].payload.city)
          /\ ClaimPostcodeOk(addressCalls[1].payload.postcode)
          /\ addressCalls[1].payload.country \in {<<"D", "E">>, <<"U", "A">>}
          /\ Len(addressState.fileScan) = 1
          /\ addressCalls[1].payload.upload = addressState.fileScan[1]
          /\ addressCalls[1].payload.upload \in Files
    /\ addressOp.name # "sendAddress" =>
          \A i \in 1..Len(addressCalls) : addressCalls[i].fn # "sendAddresses"

\* C2 witness: a submit click has dispatched a payload
C2_Witness ==
    /\ addressOp.name = "sendAddress"
    /\ Len(addressCalls) = 1
    /\ addressCalls[1].payload.postcode = <<"7">>
    /\ addressCalls[1].payload.upload = "scan2.png"

\* C8: the address form calls history.push('/settings') exactly once in a
\* props update whose success is truthy, and never otherwise: not in the
\* initial state, not on an edit, not on a submit click, not on a props
\* update without success.
C8_PushOnlyOnSuccess ==
    IF addressOp.name = "componentWillReceiveProps"
       /\ addressProps.success \notin {UndefinedStr, << >>}
    THEN addressCalls = << [fn |-> "history.push", path |-> "/settings"] >>
    ELSE \A i \in 1..Len(addressCalls) : addressCalls[i].fn # "history.push"

\* C8 witness: a props update with success set has pushed '/settings'
C8_Witness ==
    /\ addressOp.name = "componentWillReceiveProps"
    /\ addressProps.success = <<"o", "k">>
    /\ Len(addressCalls) = 1
    /\ addressCalls[1].fn = "history.push"

\* C11: the held scan-file list never has more than one element; an upload
\* event leaves it holding exactly the first file of the event (nothing when
\* the event carries no file) and changes no other field of the form state.
C11_UploadKeepsFirstFile ==
    [][/\ Len(addressState'.fileScan) <= 1
       /\ addressOp'.name = "handleUploadScan" =>
             addressState' =
                [addressState EXCEPT !.fileScan =
                    IF addressOp'.files = << >>
                    THEN << >>
                    ELSE << addressOp'.files[1] >>]]_vars

\* C11 witness: an upload event with two different files has left the first
\* one in a form whose other fields are filled in
C11_Witness ==
    /\ addressOp.name = "handleUploadScan"
    /\ Len(addressOp.files) = 2
    /\ addressOp.files[1] # addressOp.files[2]
    /\ addressState.fileScan = << addressOp.files[1] >>
    /\ addressState.address # << >>
    /\ addressState.addressFocused

---------------------------------------------------------------------------
(* Claims about the order form in use (checked under SpecOrder)            *)

\* C3: the submit button of the order form is disabled whenever the amount
\* is empty, is '0' or has a numeric value <= 0; whenever props.disabled is
\* true or props.available is 0 or absent; and in Market mode whenever the
\* derived price is <= 0.
C3_DisabledWhenInvalid ==
    /\ (\/ orderState.amount = << >>
        \/ orderState.amount = <<"0">>
        \/ LeqZero(StringToNumber(orderState.amount))) => orderView.disabled
    /\ (\/ orderProps.disabled
        \/ orderProps.available = Undefined
        \/ NumEq(orderProps.available, Num(0))) => orderView.disabled
    /\ (/\ orderState.orderType = "Market"
        /\ LeqZero(safePrice(orderProps, orderState))) => orderView.disabled

\* C3 witness: with amount '0' the button is disabled although the form is
\* not disabled, funds are available and the price is positive
C3_Witness ==
    /\ orderState.amount = <<"0">>
    /\ ~orderProps.disabled
    /\ orderProps.available = Num(10)
    /\ orderProps.proposals = << >>
    /\ orderState.priceMarket = Num(5)
    /\ orderView.disabled

\* the pattern of the claim: digits, an optional point and at most
\* `precision` fractional digits
ClaimAmountWellFormed(s, precision) ==
    LET dots == {i \in 1..Len(s) : s[i] = "."}
    IN  /\ Chars(s) \subseteq (Digit \cup {"."})
        /\ Cardinality(dots) <= 1
        /\ \A p \in dots : Len(s) - p <= precision

\* C4: handleAmountChange rejects an input whose cleaned value is not digits,
\* an optional point and at most currentMarketAskPrecision fractional digits,
\* leaving the whole state unchanged; a well-formed input replaces the amount
\* by the cleaned value and changes nothing else.
C4_MalformedAmountRejected ==
    [][orderOp'.name = "handleAmountChange" =>
          LET cleaned == cleanPositiveFloatInput(orderOp'.value)
          IN  IF ClaimAmountWellFormed(cleaned, orderState.currentMarketAskPrecision)
              THEN orderState' = [orderState EXCEPT !.amount = cleaned]
              ELSE orderState' = orderState]_vars

\* C5: handleSubmit calls onSubmit exactly once with the order built from
\* the props and the state of that moment, and leaves the amount and the
\* price empty and the order type, priceMarket and the precisions as they
\* were, so that the submit button is disabled again.
C5_SubmitHandsOrder ==
    [][orderOp'.name = "handleSubmit" =>
          /\ orderCalls' =
                << [fn |-> "onSubmit",
                    order |-> [type |-> orderProps.type,
                               orderType |-> orderState.orderType,
                               amount |-> orderState.amount,
                               price |-> IF orderState.orderType = "Market"
                                         THEN orderState.priceMarket
                                         ELSE orderState.price,
                               available |-> IF orderProps.available = Undefined
                                             THEN Num(0)
                                             ELSE orderProps.available]] >>
          /\ orderState'.amount = << >>
          /\ orderState'.price = << >>
          /\ orderState'.orderType = orderState.orderType
          /\ orderState'.priceMarket = orderState.priceMarket
          /\ orderState'.currentMarketAskPrecision = orderState.currentMarketAskPrecision
          /\ orderState'.currentMarketBidPrecision = orderState.currentMarketBidPrecision
          /\ orderView'.disabled]_vars

\* C5 witness: a sell order of amount 1.5 has been handed to onSubmit
C5_Witness ==
    /\ orderOp.name = "handleSubmit"
    /\ Len(orderCalls) = 1
    /\ orderCalls[1].order.amount = <<"1", ".", "5">>
    /\ orderCalls[1].order.type = "sell"
    /\ orderState.amount = << >>

\* C6: in Market mode the total shown is the amount multiplied by the price
\* shown (the derived price), both before formatting.
C6_TotalIsAmountTimesShownPrice ==
    orderState.orderType = "Market" =>
        NumEq(total(orderProps, orderState),
              Mul(StringToNumber(orderState.amount), safePrice(orderProps, orderState)))

\* C7: in Market mode the total shown for an amount is that amount priced at
\* priceMarket.
C7_TotalIsAmountTimesPriceMarket ==
    orderState.orderType = "Market" =>
        NumEq(total(orderProps, orderState),
              Mul(StringToNumber(orderState.amount), orderState.priceMarket))

\* C9: a props update leaves priceMarket and both precisions of the state
\* equal to those of the new props and the amount and the order type
\* unchanged; the price changes only when the order type is Limit, the new
\* priceLimit is non-zero and its formatted value differs from the price.
C9_ReceivePropsFrame ==
    [][orderOp'.name = "componentWillReceiveProps" =>
          /\ orderState'.priceMarket = orderProps'.priceMarket
          /\ orderState'.currentMarketAskPrecision = orderProps'.currentMarketAskPrecision
          /\ orderState'.currentMarketBidPrecision = orderProps'.currentMarketBidPrecision
          /\ orderState'.amount = orderState.amount
          /\ orderState'.orderType = orderState.orderType
          /\ (orderState'.price # orderState.price =>
                /\ orderState.orderType = "Limit"
                /\ Truthy(orderProps'.priceLimit)
                /\ DecimalFormat(orderProps'.priceLimit, orderState.currentMarketBidPrecision)
                      # orderState.price)]_vars

\* C9 witness: a props update has set the amount precision to 0 while an
\* amount with a fractional digit is held
C9_Witness ==
    /\ orderOp.name = "componentWillReceiveProps"
    /\ orderState.amount = <<"1", ".", "5">>
    /\ orderState.currentMarketAskPrecision = 0
    /\ orderState.priceMarket = Num(0)

\* C12: the order type is 'Market' in every reachable state, so every order
\* handed to onSubmit has pricing mode Market and the price priceMarket, and
\* the Limit branches are never taken: the price field stays empty and the
\* total is the total price of the proposals.
C12_OrderTypeAlwaysMarket ==
    /\ orderState.orderType = "Market"
    /\ orderState.price = << >>
    /\ total(orderProps, orderState) = getTotalPrice(orderState.amount, orderProps.proposals)
    /\ orderOp.name = "handleSubmit" =>
          /\ Len(orderCalls) = 1
          /\ orderCalls[1].order.orderType = "Market"
          /\ orderCalls[1].order.price = orderState.priceMarket

\* C12 witness: an order has been submitted after the props, with a non-zero
\* priceLimit, were updated while an amount was held
C12_Witness ==
    /\ orderOp.name = "handleSubmit"
    /\ Len(orderCalls) = 1
    /\ orderCalls[1].order.orderType = "Market"
    /\ orderCalls[1].order.price = Num(5)
    /\ orderCalls[1].order.amount = <<"2">>
    /\ Truthy(orderProps.priceLimit)
    /\ orderState.amountFocused

\* C13: the stored amount is empty or a decimal string with at most
\* currentMarketAskPrecision (of the current state) fractional digits.
C13_AmountWithinPrecision ==
    \/ orderState.amount = << >>
    \/ /\ ClaimAmountWellFormed(orderState.amount, orderState.currentMarketAskPrecision)
       /\ \E i \in 1..Len(orderState.amount) : orderState.amount[i] \in Digit

---------------------------------------------------------------------------
(* Claims about mounting the order form (checked under SpecMount)          *)

\* the markets of the props that the claim pairs with a currency
ClaimTargetMarkets(cur) ==
    {j \in 1..Len(orderProps.markets.list) :
        /\ toLowerCase(orderProps.markets.list[j].base_unit) = toLowerCase(cur.id)
        /\ orderProps.markets.list[j].quote_unit = <<"u", "s", "d">>}

\* the currencies of the props whose id differs from the primary valuation
\* currency and that have a market
ClaimCandidates ==
    IF orderProps.currencies.present /\ orderProps.markets.present
    THEN {i \in 1..Len(orderProps.currencies.list) :
            /\ toLowerCase(orderProps.currencies.list[i].id) # <<"u", "s", "d">>
            /\ ClaimTargetMarkets(orderProps.currencies.list[i]) # {}}
    ELSE {}

\* what the claim says componentDidMount calls, given the currencies it counts
ClaimMountCalls(candidates) ==
    IF candidates = {}
    THEN << >>
    ELSE LET c == CHOOSE i \in candidates : \A k \in candidates : i <= k
             ms == ClaimTargetMarkets(orderProps.currencies.list[c])
             m == CHOOSE j \in ms : \A k \in ms : j <= k
         IN  << [fn |-> "setCurrentMarket", market |-> orderProps.markets.list[m]] >>

\* C10 as stated: on mount the form calls setCurrentMarket at most once, and
\* does so if and only if some currency whose id differs from the primary
\* valuation currency has a matching market, with the first matching market
\* of the first such currency.
C10_MountSelectsFirstMarket ==
    orderOp.name = "componentDidMount" =>
        /\ Len(orderCalls) <= 1
        /\ orderCalls = ClaimMountCalls(ClaimCandidates)

\* C10 amended: the same, counting only the currencies whose id is not empty.
C10_MountSelectsFirstMarketOfNamedCurrency ==
    orderOp.name = "componentDidMount" =>
        /\ Len(orderCalls) <= 1
        /\ orderCalls = ClaimMountCalls(
              {i \in ClaimCandidates : orderProps.currencies.list[i].id # << >>})
        /\ (\/ ~orderProps.currencies.present
            \/ ~orderProps.markets.present
            \/ orderProps.currencies.list = << >>
            \/ orderProps.markets.list = << >>) => orderCalls = << >>

\* C10 witness: the first currency has an empty id and a market with an empty
\* base unit, and the form has selected the market of the second currency
C10_Witness ==
    /\ orderOp.name = "componentDidMount"
    /\ Len(orderCalls) = 1
    /\ Len(orderProps.currencies.list) = 2
    /\ Len(orderProps.markets.list) = 2
    /\ orderProps.currencies.list[1].id = << >>
    /\ orderProps.markets.list[1].base_unit = << >>
    /\ orderCalls[1].market = orderProps.markets.list[2]

=============================================================================
